---- MODULE Spec2Model ----
(***************************************************************************)
(* Model of the hanslope parser combinators (src/src/parsers.ts) and of    *)
(* the reduction and rewriting of their trees (src/src/transforming.ts).   *)
(*                                                                         *)
(* A JavaScript string is a tuple of one-character strings and JavaScript  *)
(* null is the tuple Null, whose element is no character, so that null     *)
(* differs from every string.  A CST leaf (string | null) is the record    *)
(* leaf(text); the other CST nodes are records with the fields of the      *)
(* source.  One invocation of a combinator is run step by step: every call *)
(* it makes to one of its parsers is one step, recorded in `calls`.        *)
(***************************************************************************)
EXTENDS Naturals, Sequences, FiniteSets, TLC

\* ---------------------------------------------------------------- bounds
MaxLen == 2
MaxParsers == 3

\* ------------------------------------------------------------ the values
Null == <<"null">>

leaf(text) == [type |-> "leaf", text |-> text]

Char == {"a", "b", " "}

Whitespace == {" "}

Strings(n) == UNION {[1..k -> Char] : k \in 0..n}

Inputs == Strings(MaxLen)

Labels == {<<"x">>, <<"y">>}

Tags == {<<"t">>}

matched(output, rest) == [matched |-> TRUE, output |-> output, rest |-> rest]

notMatched(rest, label) == [matched |-> FALSE, rest |-> rest, label |-> label]

slice(s, n) == SubSeq(s, n + 1, Len(s))

startsWith(s, prefix) ==
    /\ Len(prefix) <= Len(s)
    /\ SubSeq(s, 1, Len(prefix)) = prefix

RECURSIVE trimStart(_)
trimStart(s) ==
    IF s # <<>> /\ Head(s) \in Whitespace THEN trimStart(Tail(s)) ELSE s

\* ---------------------------------------------------- primitive parsers
\* The options of str and re: no options given, or { trim: b }.
NoOptions == <<>>

TrimOptions == {NoOptions, [trim |-> TRUE], [trim |-> FALSE]}

finalOpts(options) ==
    [trim |-> IF "trim" \in DOMAIN options THEN options.trim ELSE TRUE]

any(input) ==
    IF Len(input) > 0
    THEN matched(leaf(<<input[1]>>), slice(input, 1))
    ELSE notMatched(input, Null)

str_swapped(s, trim, input) ==
    LET finalInput == IF trim THEN trimStart(input) ELSE input
    IN  IF startsWith(finalInput, s)
        THEN matched(leaf(slice(finalInput, Len(s))), s)
        ELSE notMatched(input, Null)

str_failTrimmed(s, trim, input) ==
    LET finalInput == IF trim THEN trimStart(input) ELSE input
    IN  IF startsWith(finalInput, s)
        THEN matched(leaf(s), slice(finalInput, Len(s)))
        ELSE notMatched(finalInput, Null)

str(s, trim, input) ==
    LET finalInput == IF trim THEN trimStart(input) ELSE input
    IN  IF startsWith(finalInput, s)
        THEN matched(leaf(s), slice(finalInput, Len(s)))
        ELSE notMatched(input, Null)

\* A regular expression is modelled for the patterns /[c]+/: one or more
\* characters of the class c.  exec finds the leftmost match, wherever it
\* starts, and takes the longest run of class characters from there; it
\* returns null (the record NoMatch) when the string holds no character of
\* the class.
NoMatch == [null |-> TRUE]

RECURSIVE run(_, _)
run(class, s) ==
    IF s # <<>> /\ Head(s) \in class
    THEN <<Head(s)>> \o run(class, Tail(s))
    ELSE <<>>

RECURSIVE exec(_, _, _)
exec(class, s, index) ==
    IF index >= Len(s) THEN NoMatch
    ELSE IF s[index + 1] \in class
    THEN [index |-> index, match |-> run(class, slice(s, index))]
    ELSE exec(class, s, index + 1)

re_untrimmed(pattern, trim, input) ==
    LET res == exec(pattern, input, 0)
    IN  IF res # NoMatch /\ res.index = 0
        THEN matched(leaf(res.match), slice(input, Len(res.match)))
        ELSE notMatched(input, Null)

re(pattern, trim, input) ==
    LET finalInput == IF trim THEN trimStart(input) ELSE input
        res == exec(pattern, finalInput, 0)
    IN  IF res # NoMatch /\ res.index = 0
        THEN matched(leaf(res.match), slice(finalInput, Len(res.match)))
        ELSE notMatched(input, Null)

fail_unlabelled(label, input) == notMatched(input, Null)

fail(label, input) == notMatched(input, label)

\* The parsers the tests hand to the combinators: a parser that returns the
\* same result whatever its input, and the parser that takes the first
\* character and, on the empty input, fails with a rest unrelated to its
\* input (with or without a label).
Foo == <<"b", "a">>

constParser(res, input) == res

headParser(label, input) ==
    IF Len(input) > 0
    THEN matched(leaf(<<input[1]>>), slice(input, 1))
    ELSE notMatched(Foo, label)

\* A parser is a description of a pure function from an input to a result.
Parsers ==
    {[kind |-> "any"]}
    \cup {[kind |-> "head", label |-> l] : l \in {Null, <<"y">>}}
    \cup {[kind |-> "str", s |-> s, options |-> NoOptions] :
            s \in {<<>>, <<"a">>}}
    \cup {[kind |-> "fail", label |-> <<"x">>]}
    \cup {[kind |-> "const", res |-> r] :
            r \in {notMatched(<<"a">>, Null), notMatched(<<"b">>, Null),
                   notMatched(<<"a", "b">>, <<"y">>),
                   matched(leaf(<<"b">>), <<"a">>)}}

TwoOrMoreParsers == UNION {[1..n -> Parsers] : n \in 2..MaxParsers}

\* -------------------------------------------------------------- the state
VARIABLES
    op,            \* the combinator being run, "idle" before the call
    parsers,       \* the parsers the combinator was built from
    arg,           \* the tag of tag(), the label of labelFail(), else Null
    input,         \* the input the combinator was called with
    pc,            \* "idle", "loop" (inside the for/while loop), "done"
    currentInput,  \* seq, many: the input of the next call
    children,      \* seq, many: the outputs collected so far
    failures,      \* or: the backtrack failures collected so far
    calls,         \* every call made so far: parser index, input, result;
                   \* rule: the table given to the transformer, and the
                   \* table as the earlier applications had left it
    spins,         \* many: parity of the iterations past MaxIter
    rules,         \* rule, istTransformer: the rules, pattern and transformer
    bindings,      \* rule: the capture table of each rule
    result         \* the value returned, Null until the call returns

vars == <<op, parsers, arg, input, pc, currentInput, children, failures,
          calls, spins, rules, bindings, result>>

\* Applying a parser to an input; defined below, after the combinators.
RECURSIVE Parser(_, _)

Init ==
    /\ op = "idle"
    /\ parsers = <<>>
    /\ arg = Null
    /\ input = <<>>
    /\ pc = "idle"
    /\ currentInput = <<>>
    /\ children = <<>>
    /\ failures = <<>>
    /\ calls = <<>>
    /\ spins = 0
    /\ rules = <<>>
    /\ bindings = <<>>
    /\ result = Null

Enter(o, ps, a, s) ==
    /\ op' = o
    /\ parsers' = ps
    /\ arg' = a
    /\ input' = s
    /\ pc' = "loop"
    /\ currentInput' = s
    /\ children' = <<>>
    /\ failures' = <<>>
    /\ calls' = <<>>
    /\ spins' = 0
    /\ rules' = <<>>
    /\ bindings' = <<>>
    /\ result' = Null

Call(i, s) == [parser |-> i, input |-> s, result |-> Parser(parsers[i], s)]

Return(r) ==
    /\ result' = r
    /\ pc' = "done"

\* -------------------------------------------------------------------- or
or_invoke ==
    /\ pc = "idle"
    /\ \E ps \in TwoOrMoreParsers, s \in Inputs : Enter("or", ps, Null, s)

or_returns_matchedOnly(res) == res.matched

or_returns(res) == res.matched \/ res.label # Null

\* arr.reduce((a, b) => ...): the first element is the initial accumulator.
furthest_lastTie(a, b) == IF Len(a.rest) < Len(b.rest) THEN a ELSE b

furthest(a, b) == IF Len(a.rest) <= Len(b.rest) THEN a ELSE b

RECURSIVE reduce(_, _, _)
reduce(arr, k, acc) ==
    IF k > Len(arr) THEN acc ELSE reduce(arr, k + 1, furthest(acc, arr[k]))

findFurthestFailure(arr) == reduce(arr, 2, arr[1])

or_loop ==
    /\ op = "or"
    /\ pc = "loop"
    /\ Len(calls) < Len(parsers)
    /\ LET c == Call(Len(calls) + 1, input)
       IN  /\ calls' = Append(calls, c)
           /\ IF or_returns(c.result)
              THEN /\ Return(c.result)
                   /\ UNCHANGED failures
              ELSE /\ failures' = Append(failures, c.result)
                   /\ UNCHANGED <<result, pc>>
    /\ UNCHANGED <<rules, bindings, op, parsers, arg, input, spins, currentInput, children>>

or_return ==
    /\ op = "or"
    /\ pc = "loop"
    /\ Len(calls) = Len(parsers)
    /\ Return(findFurthestFailure(failures))
    /\ UNCHANGED <<rules, bindings, op, parsers, arg, input, spins, currentInput, children,
                   failures, calls>>

\* ------------------------------------------------------------------- seq
seq_invoke ==
    /\ pc = "idle"
    /\ \E ps \in TwoOrMoreParsers, s \in Inputs : Enter("seq", ps, Null, s)

seq_advance_stuck(current, res) == current

seq_advance(current, res) == res.rest

seq_loop_restart ==
    /\ op = "seq"
    /\ pc = "loop"
    /\ Len(calls) < Len(parsers)
    /\ LET c == Call(Len(calls) + 1, currentInput)
       IN  /\ calls' = Append(calls, c)
           /\ IF ~c.result.matched
              THEN /\ Return(notMatched(input, c.result.label))
                   /\ UNCHANGED <<currentInput, children>>
              ELSE /\ currentInput' = c.result.rest
                   /\ children' = Append(children, c.result.output)
                   /\ UNCHANGED <<result, pc>>
    /\ UNCHANGED <<rules, bindings, op, parsers, arg, input, spins, failures>>

seq_loop ==
    /\ op = "seq"
    /\ pc = "loop"
    /\ Len(calls) < Len(parsers)
    /\ LET c == Call(Len(calls) + 1, currentInput)
       IN  /\ calls' = Append(calls, c)
           /\ IF ~c.result.matched
              THEN /\ Return(c.result)
                   /\ UNCHANGED <<currentInput, children>>
              ELSE /\ currentInput' = seq_advance(currentInput, c.result)
                   /\ children' = Append(children, c.result.output)
                   /\ UNCHANGED <<result, pc>>
    /\ UNCHANGED <<rules, bindings, op, parsers, arg, input, spins, failures>>

seq_return ==
    /\ op = "seq"
    /\ pc = "loop"
    /\ Len(calls) = Len(parsers)
    /\ Return(matched([type |-> "seq", children |-> children], currentInput))
    /\ UNCHANGED <<rules, bindings, op, parsers, arg, input, spins, currentInput, children,
                   failures, calls>>

\* ---------------------------------------------------------- many, many1
\* A parser is a pure function, so a while loop that has run MaxIter times
\* without a failure has met some input twice and never ends; from there on
\* the loop goes on but the model no longer records the children and the
\* calls, only the parity of the iterations.
MaxIter == Cardinality(Inputs)

many_invoke ==
    /\ pc = "idle"
    /\ \E p \in Parsers, s \in Inputs : Enter("many", <<p>>, Null, s)

many1_invoke ==
    /\ pc = "idle"
    /\ \E p \in Parsers, s \in Inputs : Enter("many1", <<p>>, Null, s)

many_push_front(arr, output) == <<output>> \o arr

many_push(arr, output) == Append(arr, output)

many_matched_nonEmpty(arr, current) ==
    IF arr = <<>>
    THEN notMatched(current, Null)
    ELSE matched([type |-> "many", children |-> arr], current)

many_matched(arr, current) ==
    matched([type |-> "many", children |-> arr], current)

many1_check_zero(res, s) ==
    IF \/ res.matched /\ Len(res.output.children) >= 0
       \/ ~res.matched /\ res.label # Null
    THEN res
    ELSE notMatched(s, Null)

many1_check(res, s) ==
    IF \/ res.matched /\ Len(res.output.children) > 0
       \/ ~res.matched /\ res.label # Null
    THEN res
    ELSE notMatched(s, Null)

\* What the combinator returns once its many loop has returned res.
many_result(res) == IF op = "many1" THEN many1_check(res, input) ELSE res

many_loop ==
    /\ op \in {"many", "many1"}
    /\ pc = "loop"
    /\ LET c == Call(1, currentInput)
       IN  IF ~c.result.matched
           THEN /\ calls' = Append(calls, c)
                /\ IF c.result.label = Null
                   THEN /\ pc' = "break"
                        /\ UNCHANGED result
                   ELSE Return(many_result(c.result))
                /\ UNCHANGED <<currentInput, children, spins>>
           ELSE /\ currentInput' = c.result.rest
                /\ IF Len(children) < MaxIter
                   THEN /\ children' = many_push(children, c.result.output)
                        /\ calls' = Append(calls, c)
                        /\ UNCHANGED spins
                   ELSE /\ spins' = 1 - spins
                        /\ UNCHANGED <<children, calls>>
                /\ UNCHANGED <<result, pc>>
    /\ UNCHANGED <<rules, bindings, op, parsers, arg, input, failures>>

many_return ==
    /\ op \in {"many", "many1"}
    /\ pc = "break"
    /\ Return(many_result(many_matched(children, currentInput)))
    /\ UNCHANGED <<rules, bindings, op, parsers, arg, input, spins, currentInput, children,
                   failures, calls>>

\* ------------------------------------------ maybe, not, tag, labelFail
maybe_consumes(res, s) ==
    IF res.matched \/ res.label # Null
    THEN res
    ELSE matched(leaf(Null), res.rest)

maybe(res, s) ==
    IF res.matched \/ res.label # Null THEN res ELSE matched(leaf(Null), s)

not_consumes(res, s) ==
    IF res.matched THEN notMatched(res.rest, Null)
    ELSE IF res.label # Null THEN res
    ELSE matched(leaf(Null), res.rest)

not_downgrade(res, s) ==
    IF res.matched THEN notMatched(s, Null) ELSE matched(leaf(Null), s)

not(res, s) ==
    IF res.matched THEN notMatched(s, Null)
    ELSE IF res.label # Null THEN res
    ELSE matched(leaf(Null), s)

tag(t, res) ==
    IF res.matched
    THEN matched([type |-> "tag", tag |-> t, child |-> res.output], res.rest)
    ELSE res

labelFail_override(res, label) ==
    IF res.matched THEN res ELSE notMatched(res.rest, label)

labelFail(res, label) ==
    IF res.matched \/ res.label # Null THEN res
    ELSE notMatched(res.rest, label)

\* ------------------------------------------------- applying a parser
\* The loops of or, seq and many run to their end, for a parser that is
\* itself built with a combinator.
RECURSIVE or_run(_, _, _, _)
or_run(ps, s, i, fs) ==
    IF i > Len(ps) THEN findFurthestFailure(fs)
    ELSE LET res == Parser(ps[i], s)
         IN  IF or_returns(res) THEN res
             ELSE or_run(ps, s, i + 1, Append(fs, res))

RECURSIVE seq_run(_, _, _, _)
seq_run(ps, current, i, cs) ==
    IF i > Len(ps) THEN matched([type |-> "seq", children |-> cs], current)
    ELSE LET res == Parser(ps[i], current)
         IN  IF ~res.matched THEN res
             ELSE seq_run(ps, seq_advance(current, res), i + 1,
                          Append(cs, res.output))

RECURSIVE many_run(_, _, _)
many_run(p, current, cs) ==
    LET res == Parser(p, current)
    IN  IF ~res.matched
        THEN IF res.label = Null THEN many_matched(cs, current) ELSE res
        ELSE many_run(p, res.rest, many_push(cs, res.output))

Parser(p, s) ==
    CASE p.kind = "any" -> any(s)
      [] p.kind = "head" -> headParser(p.label, s)
      [] p.kind = "str" -> str(p.s, finalOpts(p.options).trim, s)
      [] p.kind = "re" -> re(p.pattern, finalOpts(p.options).trim, s)
      [] p.kind = "fail" -> fail(p.label, s)
      [] p.kind = "const" -> constParser(p.res, s)
      [] p.kind = "or" -> or_run(p.parsers, s, 1, <<>>)
      [] p.kind = "seq" -> seq_run(p.parsers, s, 1, <<>>)
      [] p.kind = "many" -> many_run(p.parser, s, <<>>)
      [] p.kind = "many1" -> many1_check(many_run(p.parser, s, <<>>), s)
      [] p.kind = "maybe" -> maybe(Parser(p.parser, s), s)
      [] p.kind = "not" -> not(Parser(p.parser, s), s)
      [] p.kind = "tag" -> tag(p.tag, Parser(p.parser, s))
      [] p.kind = "labelFail" -> labelFail(Parser(p.parser, s), p.label)

maybe_invoke ==
    /\ pc = "idle"
    /\ \E p \in Parsers, s \in Inputs : Enter("maybe", <<p>>, Null, s)

not_invoke ==
    /\ pc = "idle"
    /\ \E p \in Parsers, s \in Inputs : Enter("not", <<p>>, Null, s)

tag_invoke ==
    /\ pc = "idle"
    /\ \E p \in Parsers, t \in Tags, s \in Inputs : Enter("tag", <<p>>, t, s)

labelFail_invoke ==
    /\ pc = "idle"
    /\ \E p \in Parsers, l \in Labels, s \in Inputs :
          Enter("labelFail", <<p>>, l, s)

\* The four combinators that call their parser once on the input.
Wrap(o, r) ==
    /\ op = o
    /\ pc = "loop"
    /\ calls' = Append(calls, Call(1, input))
    /\ Return(r)
    /\ UNCHANGED <<rules, bindings, op, parsers, arg, input, spins, currentInput, children,
                   failures>>

maybe_call == Wrap("maybe", maybe(Parser(parsers[1], input), input))

not_call == Wrap("not", not(Parser(parsers[1], input), input))

tag_call == Wrap("tag", tag(arg, Parser(parsers[1], input)))

labelFail_call == Wrap("labelFail", labelFail(Parser(parsers[1], input), arg))

\* ------------------------------------------------- the parsers one builds
\* A parser each of whose successes leaves a rest shorter than its input.
Consuming(p) ==
    \A s \in Inputs : Parser(p, s).matched => Len(Parser(p, s).rest) < Len(s)

Primitives ==
    {[kind |-> "any"]}
    \cup {[kind |-> "str", s |-> s, options |-> o] :
            s \in Inputs, o \in TrimOptions}
    \cup {[kind |-> "re", pattern |-> {"a"}, options |-> o] :
            o \in TrimOptions}
    \cup {[kind |-> "fail", label |-> l] : l \in Labels}

Core ==
    {[kind |-> "any"],
     [kind |-> "str", s |-> <<"a">>, options |-> NoOptions],
     [kind |-> "str", s |-> <<>>, options |-> NoOptions],
     [kind |-> "re", pattern |-> {"a"}, options |-> NoOptions],
     [kind |-> "fail", label |-> <<"x">>]}

Binary(S, T) ==
    {[kind |-> k, parsers |-> <<p, q>>] :
        k \in {"or", "seq"}, p \in S, q \in T}

\* many and many1 are built over consuming parsers only: over any other
\* parser the call does not return.
Unary(S) ==
    {[kind |-> k, parser |-> p] : k \in {"maybe", "not"}, p \in S}
    \cup {[kind |-> k, parser |-> p] :
            k \in {"many", "many1"}, p \in {q \in S : Consuming(q)}}
    \cup {[kind |-> "tag", tag |-> t, parser |-> p] : t \in Tags, p \in S}
    \cup {[kind |-> "labelFail", parser |-> p, label |-> <<"y">>] : p \in S}

Combined == Binary(Core, Core) \cup Unary(Core)

Built ==
    Primitives \cup Combined \cup Unary(Combined)
    \cup Binary(Combined, Core) \cup Binary(Core, Combined)

\* The caller applies a parser it built to an input.
parse_invoke ==
    /\ pc = "idle"
    /\ \E p \in Built, s \in Inputs : Enter("parse", <<p>>, Null, s)

parse_call == Wrap("parse", Parser(parsers[1], input))

ParseNext ==
    \/ parse_invoke
    \/ parse_call

ParseSpec == Init /\ [][ParseNext]_vars

\* ------------------------------------------------- from the CST to the IST
\* (src/src/transforming.ts)  An IST leaf is a CST leaf; an ISTBranch is the
\* record istBranch(entries), entries a function from its keys to IST nodes;
\* an ISTSequence is the record istSequence(elements).
MaxChildren == 2

MaxInner == 2

TagNames == Tags \cup {<<"u">>}

istBranch(entries) == [branch |-> entries]

istSequence(elements) == [sequence |-> elements]

isNotLeaf(node) == "text" \notin DOMAIN node

isSequence(node) == "sequence" \in DOMAIN node

isBranch(node) == isNotLeaf(node) /\ ~isSequence(node)

\* Object.create(istBranchPrototype): an object with no entry of its own.
EmptyObject == [k \in {} |-> Null]

tagged_bare(t, value) == value

\* obj[cst.tag] = cstToIst(cst.child)
tagged(t, value) == istBranch([k \in {t} |-> value])

assignOne_keepTarget(target, source) ==
    [k \in DOMAIN target \cup DOMAIN source |->
        IF k \in DOMAIN target THEN target[k] ELSE source[k]]

\* Object.assign copies the entries of one source over those of the target.
assignOne(target, source) ==
    [k \in DOMAIN target \cup DOMAIN source |->
        IF k \in DOMAIN source THEN source[k] ELSE target[k]]

RECURSIVE assign(_, _)
assign(target, sources) ==
    IF sources = <<>> THEN target
    ELSE assign(assignOne(target, Head(sources).branch), Tail(sources))

flatOne_nested(node) == <<node>>

\* Array.prototype.flat() promotes the elements of an array element.
flatOne(node) == IF isSequence(node) THEN node.sequence ELSE <<node>>

RECURSIVE flat(_)
flat(arr) ==
    IF arr = <<>> THEN <<>> ELSE flatOne(Head(arr)) \o flat(Tail(arr))

joinOne_prepend(acc, node) ==
    (IF node.text = Null THEN <<>> ELSE node.text) \o acc

\* Array.prototype.join("") appends each element, null as the empty string.
joinOne(acc, node) ==
    acc \o (IF node.text = Null THEN <<>> ELSE node.text)

RECURSIVE join(_, _)
join(arr, acc) ==
    IF arr = <<>> THEN acc ELSE join(Tail(arr), joinOne(acc, Head(arr)))

hasBranches(nodes) == \E i \in DOMAIN nodes : isBranch(nodes[i])

hasSequences(nodes) == \E i \in DOMAIN nodes : isSequence(nodes[i])

reduceChildren_keepLeaves(type, nodes) ==
    IF type = "seq" /\ hasBranches(nodes) /\ ~hasSequences(nodes)
    THEN istBranch(assign(EmptyObject, SelectSeq(nodes, isNotLeaf)))
    ELSE IF hasBranches(nodes) \/ hasSequences(nodes)
    THEN istSequence(flat(nodes))
    ELSE leaf(join(nodes, <<>>))

reduceChildren(type, nodes) ==
    IF type = "seq" /\ hasBranches(nodes) /\ ~hasSequences(nodes)
    THEN istBranch(assign(EmptyObject, SelectSeq(nodes, isNotLeaf)))
    ELSE IF hasBranches(nodes) \/ hasSequences(nodes)
    THEN istSequence(flat(SelectSeq(nodes, isNotLeaf)))
    ELSE leaf(join(nodes, <<>>))

RECURSIVE cstToIst(_)
cstToIst(cst) ==
    IF cst.type = "leaf" THEN cst
    ELSE IF cst.type = "tag" THEN tagged(cst.tag, cstToIst(cst.child))
    ELSE reduceChildren(cst.type,
                        [i \in DOMAIN cst.children |->
                            cstToIst(cst.children[i])])

\* The CST nodes given to cstToIst.
Leaves == {leaf(<<"a">>), leaf(<<"b">>), leaf(Null)}

cstTagged(S, T) == {[type |-> "tag", tag |-> t, child |-> c] : t \in T, c \in S}

cstMany(S, n) ==
    {[type |-> "many", children |-> cs] : cs \in UNION {[1..k -> S] : k \in 0..n}}

cstSeq(S, n) ==
    {[type |-> "seq", children |-> cs] : cs \in UNION {[1..k -> S] : k \in 2..n}}

TaggedLeaf == [type |-> "tag", tag |-> <<"t">>, child |-> leaf(<<"a">>)]

Inner ==
    cstMany({leaf(<<"a">>), TaggedLeaf}, MaxInner)
    \cup cstSeq({leaf(<<"a">>), TaggedLeaf}, MaxInner)

ChildNodes ==
    Leaves
    \cup cstTagged({leaf(<<"a">>), leaf(<<"b">>)}, TagNames)
    \cup Inner
    \cup cstTagged({n \in Inner : n.type = "many"}, {<<"u">>})

cstBranch(type, nodes) == [type |-> type, children |-> nodes]

\* parseGrammar hands the CST of a successful parse to cstToIst.
cstToIst_invoke ==
    /\ pc = "idle"
    /\ \/ \E cst \in ChildNodes : Enter("cstToIst", <<>>, cst, <<>>)
       \/ \E k \in 0..MaxChildren : \E nodes \in [1..k -> ChildNodes] :
             Enter("cstToIst", <<>>, cstBranch("many", nodes), <<>>)
       \/ \E k \in 2..MaxChildren : \E nodes \in [1..k -> ChildNodes] :
             Enter("cstToIst", <<>>, cstBranch("seq", nodes), <<>>)

cstToIst_return ==
    /\ op = "cstToIst"
    /\ pc = "loop"
    /\ Return(cstToIst(arg))
    /\ UNCHANGED <<rules, bindings, op, parsers, arg, input, spins, currentInput, children,
                   failures, calls>>

ReduceNext ==
    \/ cstToIst_invoke
    \/ cstToIst_return

ReduceSpec == Init /\ [][ReduceNext]_vars

\* ------------------------------------------------------ patterns and rules
\* (src/src/transforming.ts)  A plain object, such as a pattern written as
\* an object literal, is the record plainObject(entries); an ISTBranch made
\* by cstToIst, whose prototype is istBranchPrototype, is istBranch(entries).
\* A binding placeholder is a record with the kind and the name it was built
\* with.  undefined is the record Undefined.
plainObject(entries) == [object |-> entries]

Undefined == [undefined |-> TRUE]

isBinding(p) == "bind" \in DOMAIN p

isArray(it) == "sequence" \in DOMAIN it

isObject(it) == "branch" \in DOMAIN it \/ "object" \in DOMAIN it

\* Object.entries(it), as a function from the keys to the values.
entriesOf(it) == IF "branch" \in DOMAIN it THEN it.branch ELSE it.object

\* The order in which Object.entries lists the keys.
KeyOrder == <<<<"t">>, <<"u">>>>

keysOf(entries) == SelectSeq(KeyOrder, LAMBDA k : k \in DOMAIN entries)

isComplex(value) == "branch" \in DOMAIN value \/ isArray(value)

bindLeaf(name) == [bind |-> "leaf", name |-> name]

bindSequence(name) == [bind |-> "sequence", name |-> name]

bindAny(name) == [bind |-> "any", name |-> name]

\* p[patternBind](value): the name to bind, or null.
patternBind(p, value) ==
    CASE p.bind = "leaf" -> IF isComplex(value) THEN Null ELSE p.name
      [] p.bind = "sequence" ->
            IF /\ isArray(value)
               /\ ~\E i \in DOMAIN value.sequence : isComplex(value.sequence[i])
            THEN p.name
            ELSE Null
      [] p.bind = "any" -> p.name

\* if (boundName): null and the empty string are falsy.
truthy(boundName) == boundName # Null /\ boundName # <<>>

bind_keep(table, name, value) ==
    assignOne([k \in {name} |-> value], table)

\* bindings[boundName] = b
bind(table, name, value) ==
    assignOne(table, [k \in {name} |-> value])

sameLength_atLeast(entries, it) ==
    Cardinality(DOMAIN entries) <= Cardinality(DOMAIN entriesOf(it))

\* entries.length === Object.entries(b).length
sameLength(entries, it) ==
    Cardinality(DOMAIN entries) = Cardinality(DOMAIN entriesOf(it))

\* deeplyEqual returns whether a matches b; what it has written to the
\* capture table by then is returned with it.
RECURSIVE deeplyEqual(_, _, _)
RECURSIVE everyElement(_, _, _, _)
RECURSIVE everyEntry(_, _, _, _, _)

everyElement(as, bs, i, table) ==
    IF i > Len(as) THEN [equal |-> TRUE, bindings |-> table]
    ELSE LET r == deeplyEqual(as[i], bs[i], table)
         IN  IF r.equal THEN everyElement(as, bs, i + 1, r.bindings) ELSE r

everyEntry(entries, keys, it, i, table) ==
    IF i > Len(keys) THEN [equal |-> TRUE, bindings |-> table]
    ELSE IF keys[i] \notin DOMAIN it THEN [equal |-> FALSE, bindings |-> table]
    ELSE LET r == deeplyEqual(entries[keys[i]], it[keys[i]], table)
         IN  IF r.equal
             THEN everyEntry(entries, keys, it, i + 1, r.bindings)
             ELSE r

deeplyEqual(a, b, table) ==
    IF isBinding(a)
    THEN IF truthy(patternBind(a, b))
         THEN [equal |-> TRUE, bindings |-> bind(table, patternBind(a, b), b)]
         ELSE [equal |-> FALSE, bindings |-> table]
    ELSE IF isArray(a)
    THEN IF isArray(b) /\ Len(a.sequence) = Len(b.sequence)
         THEN everyElement(a.sequence, b.sequence, 1, table)
         ELSE [equal |-> FALSE, bindings |-> table]
    ELSE IF isObject(a)
    THEN IF isObject(b) /\ sameLength(entriesOf(a), b)
         THEN everyEntry(entriesOf(a), keysOf(entriesOf(a)), entriesOf(b), 1,
                         table)
         ELSE [equal |-> FALSE, bindings |-> table]
    ELSE [equal |-> a = b, bindings |-> table]

\* A transformer either returns a value of its own or the capture of a name.
transformer(t, table) ==
    IF t.kind = "const" THEN t.value
    ELSE IF t.name \in DOMAIN table THEN table[t.name]
    ELSE Undefined

ruleResult_always(r, t, value) == transformer(t, r.bindings)

\* deeplyEqual(pattern, input) ? transformer(bindings) : input
ruleResult(r, t, value) ==
    IF r.equal THEN transformer(t, r.bindings) ELSE value

\* The capture names, the patterns, the transformers and the values.
Names == {<<>>, <<"x">>, <<"y">>}

Placeholders ==
    {bindLeaf(n) : n \in Names} \cup {bindSequence(n) : n \in {<<"x">>}}
    \cup {bindAny(n) : n \in {<<>>, <<"y">>}}

Literals == {leaf(<<"a">>), leaf(Null)}

Objects(S) ==
    {plainObject(f) : f \in UNION {[K -> S] : K \in SUBSET TagNames}}

MaxElements == 2

Arrays(S) ==
    {istSequence(f) : f \in UNION {[1..k -> S] : k \in 0..MaxElements}}

Singletons(S) == {istSequence(<<v>>) : v \in S}

Branches(S) ==
    {istBranch(f) : f \in UNION {[K -> S] : K \in SUBSET TagNames \ {{}}}}

SmallPatterns ==
    {leaf(<<"a">>), bindLeaf(<<"x">>), bindLeaf(<<"y">>), bindAny(<<"y">>)}

NestedPatterns ==
    {plainObject([k \in {<<"t">>} |-> bindLeaf(<<"x">>)]),
     istSequence(<<bindLeaf(<<"x">>)>>), istSequence(<<>>)}

Patterns ==
    Literals \cup Placeholders
    \cup Objects(SmallPatterns) \cup Arrays(SmallPatterns)
    \cup Objects(NestedPatterns) \cup Singletons(NestedPatterns)

Transformers ==
    {[kind |-> "const", value |-> leaf(<<"c">>)],
     [kind |-> "get", name |-> <<"x">>],
     [kind |-> "get", name |-> <<"y">>]}

FlatValues == {leaf(<<"a">>), leaf(<<"b">>), leaf(Null)}

ShallowValues ==
    Objects({leaf(<<"a">>), leaf(<<"b">>)})
    \cup Branches({leaf(<<"a">>)})
    \cup Arrays({leaf(<<"a">>), leaf(<<"b">>)})

DeepValues ==
    Singletons({istSequence(<<>>), istSequence(<<leaf(<<"a">>)>>),
                istBranch([k \in {<<"t">>} |-> leaf(<<"a">>)]),
                plainObject([k \in {<<"t">>} |-> leaf(<<"a">>)])})
    \cup Objects({istSequence(<<leaf(<<"b">>)>>),
                  plainObject([k \in {<<"t">>} |-> leaf(<<"b">>)])})

Values == FlatValues \cup ShallowValues \cup DeepValues

\* rule(pattern, transformer): the rule starts with an empty capture table.
rule_invoke ==
    /\ pc = "idle"
    /\ \E p \in Patterns, t \in Transformers :
          /\ op' = "rule"
          /\ rules' = <<[pattern |-> p, transformer |-> t]>>
          /\ bindings' = <<EmptyObject>>
          /\ pc' = "loop"
    /\ UNCHANGED <<parsers, arg, input, spins, currentInput, children,
                   failures, calls, result>>

\* The rule is applied to a value; it can be applied again afterwards.
rule_call ==
    /\ op = "rule"
    /\ pc \in {"loop", "done"}
    /\ \E value \in Values :
          LET r == deeplyEqual(rules[1].pattern, value, bindings[1])
          IN  /\ input' = value
              /\ bindings' = <<r.bindings>>
              /\ calls' = IF r.equal
                          THEN <<[bindings |-> r.bindings,
                                  earlier |-> bindings[1]]>>
                          ELSE <<>>
              /\ result' = ruleResult(r, rules[1].transformer, value)
              /\ pc' = "done"
    /\ UNCHANGED <<op, rules, parsers, arg, spins, currentInput, children,
                   failures>>

RuleNext ==
    \/ rule_invoke
    \/ rule_call

RuleSpec == Init /\ [][RuleNext]_vars

\* ------------------------------------------------------ the rewriter
\* istTransformer(...rules) returns transform.  The state threaded through
\* the recursion is the capture table of each rule and the log of the calls
\* of the rules: the path of the node (the position of each index or key on
\* the way from the root), the rule, the node it was given, whether its
\* pattern matched, and what it returned.
MaxRules == 2

positionOf(k) == CHOOSE i \in DOMAIN KeyOrder : KeyOrder[i] = k

fired_never(newNode, node) == FALSE

\* if (newNode !== node)
fired(newNode, node) == newNode # node

fromElements_reversed(node, elements) ==
    istSequence([i \in DOMAIN elements |->
                    elements[Len(elements) + 1 - i]])

fromElements_empty(node, elements) == istSequence(<<>>)

\* node.map(it => transform(it))
fromElements(node, elements) == istSequence(elements)

fromEntries_original(node, entries) == node

\* Object.fromEntries(...): a plain object, whatever the prototype of node.
fromEntries(node, entries) == plainObject(entries)

RECURSIVE applyRules(_, _, _, _)
RECURSIVE transform(_, _, _)
RECURSIVE transformElements(_, _, _, _, _)
RECURSIVE transformEntries(_, _, _, _, _, _)

applyRules(node, path, i, st) ==
    IF i > Len(rules) THEN [value |-> node, state |-> st]
    ELSE LET r == deeplyEqual(rules[i].pattern, node, st.bindings[i])
             newNode == ruleResult(r, rules[i].transformer, node)
             next == [bindings |-> [st.bindings EXCEPT ![i] = r.bindings],
                      calls |-> Append(st.calls,
                                       [path |-> path, rule |-> i,
                                        node |-> node, matched |-> r.equal,
                                        result |-> newNode])]
         IN  IF fired(newNode, node)
             THEN [value |-> newNode, state |-> next]
             ELSE applyRules(node, path, i + 1, next)

transformElements(elements, path, i, st, acc) ==
    IF i > Len(elements) THEN [value |-> acc, state |-> st]
    ELSE LET r == transform(elements[i], Append(path, i), st)
         IN  transformElements(elements, path, i + 1, r.state,
                               Append(acc, r.value))

transformEntries(entries, keys, path, i, st, acc) ==
    IF i > Len(keys) THEN [value |-> acc, state |-> st]
    ELSE LET r == transform(entries[keys[i]],
                            Append(path, positionOf(keys[i])), st)
         IN  transformEntries(entries, keys, path, i + 1, r.state,
                              assignOne(acc, [k \in {keys[i]} |-> r.value]))

transform(node, path, st) ==
    IF isArray(node)
    THEN LET r == transformElements(node.sequence, path, 1, st, <<>>)
         IN  applyRules(fromElements(node, r.value), path, 1, r.state)
    ELSE IF isObject(node)
    THEN LET r == transformEntries(entriesOf(node), keysOf(entriesOf(node)),
                                   path, 1, st, EmptyObject)
         IN  applyRules(fromEntries(node, r.value), path, 1, r.state)
    ELSE applyRules(node, path, 1, st)

\* The rules the rewriter is built from.
RulePatterns ==
    {leaf(<<"a">>), plainObject([k \in {<<"t">>} |-> leaf(<<"c">>)]),
     bindLeaf(<<"x">>), bindSequence(<<"x">>), bindAny(<<"x">>),
     plainObject([k \in {<<"u">>} |-> bindLeaf(<<"x">>)])}

RuleTransformers ==
    {[kind |-> "const", value |-> leaf(<<"a">>)],
     [kind |-> "const", value |-> leaf(<<"c">>)],
     [kind |-> "const", value |-> leaf(<<"d">>)],
     [kind |-> "get", name |-> <<"x">>]}

Rules == [pattern : RulePatterns, transformer : RuleTransformers]

\* The ISTs that cstToIst makes of the CST nodes.
ISTNodes ==
    {cstToIst(cst) :
        cst \in ChildNodes \cup cstTagged(Inner, {<<"u">>})
                \cup cstTagged({TaggedLeaf}, TagNames)}

\* istTransformer(...rules): every rule has its own, empty capture table.
istTransformer_invoke ==
    /\ pc = "idle"
    /\ \E n \in 1..MaxRules : \E rs \in [1..n -> Rules], node \in ISTNodes :
          /\ op' = "istTransformer"
          /\ rules' = rs
          /\ bindings' = [i \in 1..n |-> EmptyObject]
          /\ input' = node
          /\ pc' = "loop"
    /\ UNCHANGED <<parsers, arg, spins, currentInput, children, failures,
                   calls, result>>

\* transform(input)
istTransformer_call ==
    /\ op = "istTransformer"
    /\ pc = "loop"
    /\ LET r == transform(input, <<>>, [bindings |-> bindings, calls |-> <<>>])
       IN  /\ bindings' = r.state.bindings
           /\ calls' = r.state.calls
           /\ Return(r.value)
    /\ UNCHANGED <<op, rules, parsers, arg, input, spins, currentInput,
                   children, failures>>

RewriteNext ==
    \/ istTransformer_invoke
    \/ istTransformer_call

RewriteSpec == Init /\ [][RewriteNext]_vars

\* ------------------------------------------------------ the specification
Next ==
    \/ or_invoke
    \/ or_loop
    \/ or_return
    \/ seq_invoke
    \/ seq_loop
    \/ seq_return
    \/ many_invoke
    \/ many1_invoke
    \/ many_loop
    \/ many_return
    \/ maybe_invoke
    \/ maybe_call
    \/ not_invoke
    \/ not_call
    \/ tag_invoke
    \/ tag_call
    \/ labelFail_invoke
    \/ labelFail_call

Spec == Init /\ [][Next]_vars

\* The calls of many and many1 alone.  A call is synchronous and nothing
\* suspends it, so a step that can be taken is eventually taken.
ManyNext ==
    \/ many_invoke
    \/ many1_invoke
    \/ many_loop
    \/ many_return

FairManySpec == Init /\ [][ManyNext]_vars /\ WF_vars(ManyNext)

\* ================================================================ claims
IsBacktrack(res) == ~res.matched /\ res.label = Null

IsExplicit(res) == ~res.matched /\ res.label # Null

\* C1: in seq, many, many1, maybe, not, tag and labelFail, as soon as a call
\* to the sub-parser returns a labelled failure the combinator returns that
\* very failure (same rest, same label) and makes no further call.
C1_ExplicitFailurePropagates ==
    op \in {"seq", "many", "many1", "maybe", "not", "tag", "labelFail"} =>
        \A k \in 1..Len(calls) :
            IsExplicit(calls[k].result) =>
                /\ pc = "done"
                /\ Len(calls) = k
                /\ result = calls[k].result

C1_Witness ==
    /\ op = "not"
    /\ pc = "done"
    /\ IsExplicit(calls[1].result)
    /\ calls[1].result.rest # input

C1_WitnessLoop ==
    /\ op = "many1"
    /\ pc = "done"
    /\ Len(calls) > 1
    /\ IsExplicit(calls[Len(calls)].result)

\* C2: or calls its parsers left to right, each on the input or was called
\* with, and returns the result of the first call that is a success or a
\* labelled failure; no parser after that one is called.
C2_OrStopsAtFirst ==
    op = "or" =>
        \A k \in 1..Len(calls) :
            /\ calls[k].parser = k
            /\ calls[k].input = input
            /\ (calls[k].result.matched \/ IsExplicit(calls[k].result)) =>
                   /\ pc = "done"
                   /\ Len(calls) = k
                   /\ result = calls[k].result

C2_Witness ==
    /\ op = "or"
    /\ pc = "done"
    /\ Len(calls) = 1
    /\ IsExplicit(calls[1].result)
    /\ result = calls[1].result
    /\ Parser(parsers[2], input).matched

\* C3: when every parser of or backtrack-fails, or returns a label-less
\* failure that one of them produced, whose rest is the shortest of all, and
\* among those of the shortest rest the one of the earliest parser.
C3_OrFurthestFailure ==
    (/\ op = "or"
     /\ pc = "done"
     /\ \A k \in 1..Len(calls) : IsBacktrack(calls[k].result)) =>
        /\ Len(calls) = Len(parsers)
        /\ result.label = Null
        /\ \E k \in 1..Len(calls) :
              /\ result = calls[k].result
              /\ \A j \in 1..Len(calls) :
                    Len(calls[j].result.rest) >= Len(calls[k].result.rest)
              /\ \A j \in 1..(k - 1) :
                    Len(calls[j].result.rest) > Len(calls[k].result.rest)

C3_Witness ==
    /\ op = "or"
    /\ pc = "done"
    /\ \A k \in 1..Len(calls) : IsBacktrack(calls[k].result)
    /\ \E j, k \in 1..Len(calls) :
          /\ j < k
          /\ result = calls[j].result
          /\ Len(calls[k].result.rest) = Len(result.rest)
          /\ calls[k].result # result
    /\ Len(calls[1].result.rest) > Len(result.rest)

\* C4: seq calls its first parser on the input and every later parser on the
\* rest of the call before it; when all n >= 2 succeed it returns a success
\* whose output is a seq node of exactly their n outputs in order, and whose
\* rest is the rest of the last call.
C4_SeqThreadsRest ==
    op = "seq" =>
        /\ \A k \in 1..Len(calls) :
              /\ calls[k].parser = k
              /\ calls[k].input =
                    IF k = 1 THEN input ELSE calls[k - 1].result.rest
        /\ (pc = "done" /\ \A k \in 1..Len(calls) : calls[k].result.matched) =>
              /\ Len(calls) = Len(parsers)
              /\ Len(parsers) >= 2
              /\ result.matched
              /\ result.output.type = "seq"
              /\ result.output.children =
                    [k \in 1..Len(parsers) |-> calls[k].result.output]
              /\ result.rest = calls[Len(calls)].result.rest

C4_Witness ==
    /\ op = "seq"
    /\ pc = "done"
    /\ Len(parsers) = MaxParsers
    /\ result.matched
    /\ Len(result.output.children) = MaxParsers
    /\ calls[2].input # input
    /\ result.rest # calls[2].input

\* C5: when a call made by seq fails, with or without a label, seq returns
\* exactly that failure, which carries no output, and calls no later parser.
C5_SeqFailsVerbatim ==
    op = "seq" =>
        \A k \in 1..Len(calls) :
            ~calls[k].result.matched =>
                /\ pc = "done"
                /\ Len(calls) = k
                /\ result = calls[k].result
                /\ DOMAIN result = {"matched", "rest", "label"}

C5_Witness ==
    /\ op = "seq"
    /\ pc = "done"
    /\ Len(calls) = 2
    /\ Len(parsers) > 2
    /\ IsBacktrack(calls[2].result)
    /\ result = calls[2].result
    /\ result.rest # input
    /\ children # <<>>

\* A parser that never returns a labelled failure.
BacktrackOnly(p) == \A s \in Inputs : ~IsExplicit(Parser(p, s))

C7_ManyCollects ==
    op = "many" =>
        /\ \A k \in 1..Len(calls) :
              /\ calls[k].parser = 1
              /\ calls[k].input =
                    IF k = 1 THEN input ELSE calls[k - 1].result.rest
              /\ k < Len(calls) => calls[k].result.matched
        /\ (pc = "done" /\ IsBacktrack(calls[Len(calls)].result)) =>
              LET n == Len(calls) - 1
              IN  /\ result.matched
                  /\ result.output.type = "many"
                  /\ result.output.children =
                        [k \in 1..n |-> calls[k].result.output]
                  /\ result.rest =
                        IF n = 0 THEN input ELSE calls[n].result.rest

C7_Witness ==
    /\ op = "many"
    /\ pc = "done"
    /\ Len(calls) = 3
    /\ IsBacktrack(calls[3].result)
    /\ result.matched
    /\ Len(result.output.children) = 2
    /\ result.output.children[1] # result.output.children[2]
    /\ result.rest # calls[3].result.rest

\* C8: many1 returns what many returns when that is a success with at least
\* one child; when many succeeds with no child (p backtrack-fails on the
\* input itself) many1 returns a label-less failure whose rest is the input
\* many1 was called with.
C8_Many1NeedsOne ==
    (op = "many1" /\ pc = "done" /\ IsBacktrack(calls[Len(calls)].result)) =>
        LET n == Len(calls) - 1
        IN  IF n > 0
            THEN result =
                     matched([type |-> "many",
                              children |->
                                  [k \in 1..n |-> calls[k].result.output]],
                             calls[n].result.rest)
            ELSE /\ calls[1].input = input
                 /\ result = notMatched(input, Null)

C8_Witness ==
    /\ op = "many1"
    /\ pc = "done"
    /\ BacktrackOnly(parsers[1])
    /\ Len(calls) = 1
    /\ IsBacktrack(calls[1].result)
    /\ calls[1].result.rest # input
    /\ result = notMatched(input, Null)

C10_MaybeOptional ==
    (op = "maybe" /\ pc = "done") =>
        LET r == calls[1].result
        IN  /\ calls[1].input = input
            /\ r.matched => result = r
            /\ IsBacktrack(r) => result = matched(leaf(Null), input)
            /\ ~IsBacktrack(result)

C10_Witness ==
    /\ op = "maybe"
    /\ pc = "done"
    /\ IsBacktrack(calls[1].result)
    /\ calls[1].result.rest # input
    /\ result = matched(leaf(Null), input)

\* C11: labelFail returns the result of p unchanged when p succeeds or fails
\* with a label (the given label never replaces the label p gave); when p
\* backtrack-fails it returns a failure with the given label and the rest
\* that the failure of p reported.
C11_LabelFailLabels ==
    (op = "labelFail" /\ pc = "done") =>
        LET r == calls[1].result
        IN  /\ calls[1].input = input
            /\ (r.matched \/ IsExplicit(r)) => result = r
            /\ IsBacktrack(r) => result = notMatched(r.rest, arg)

C11_Witness ==
    /\ op = "labelFail"
    /\ pc = "done"
    /\ IsBacktrack(calls[1].result)
    /\ calls[1].result.rest # input
    /\ result = notMatched(calls[1].result.rest, arg)

\* or(parser, fail(label)) applied to the input of the labelFail call.
OrFail == [kind |-> "or",
           parsers |-> <<parsers[1], [kind |-> "fail", label |-> arg]>>]

\* C12 as stated: labelFail(parser, label) and or(parser, fail(label)) return
\* the same result on every input.
C12_LabelFailIsOr ==
    (op = "labelFail" /\ pc = "done") => result = Parser(OrFail, input)

\* C12, amended: labelFail(parser, label) and or(parser, fail(label)) return
\* the same result when parser succeeds or fails with a label; when parser
\* backtrack-fails both fail with the given label, labelFail with the rest
\* the failure of parser reported and or(parser, fail(label)) with the input.
C12_LabelFailVsOr ==
    (op = "labelFail" /\ pc = "done") =>
        LET r == calls[1].result
            o == Parser(OrFail, input)
        IN  /\ (r.matched \/ IsExplicit(r)) => result = o
            /\ IsBacktrack(r) =>
                  /\ result = notMatched(r.rest, arg)
                  /\ o = notMatched(input, arg)

C12_Witness ==
    /\ op = "labelFail"
    /\ pc = "done"
    /\ IsBacktrack(calls[1].result)
    /\ calls[1].result.rest # input
    /\ result # Parser(OrFail, input)
    /\ result.label = Parser(OrFail, input).label

IsSuffix(r, s) ==
    /\ Len(r) <= Len(s)
    /\ SubSeq(s, Len(s) - Len(r) + 1, Len(s)) = r

\* The number of whitespace characters a string starts with, and the string
\* without them.
LeadingWhitespace(s) ==
    CHOOSE k \in 0..Len(s) :
        /\ \A i \in 1..k : s[i] \in Whitespace
        /\ k < Len(s) => s[k + 1] \notin Whitespace

Stripped(s) == SubSeq(s, LeadingWhitespace(s) + 1, Len(s))

\* C13: for every parser built from any, str, re, fail and the combinators
\* and every input, the rest of the result, success or failure, is a suffix
\* of the input.
C13_RestIsSuffix ==
    (op = "parse" /\ pc = "done") => IsSuffix(result.rest, input)

C13_Witness ==
    /\ op = "parse"
    /\ pc = "done"
    /\ parsers[1].kind = "labelFail"
    /\ parsers[1].parser.kind = "seq"
    /\ IsExplicit(result)
    /\ result.rest # input
    /\ result.rest # <<>>

\* C14: str(s), when trimming (no options, or trim: true), succeeds exactly
\* when the input without its leading whitespace starts with s; the output
\* is then s and the rest is what follows s in the trimmed input; a failure
\* has no label and its rest is the input as given; with trim: false the
\* input is matched as given.
C14_StrMatchesPrefix ==
    (op = "parse" /\ pc = "done" /\ parsers[1].kind = "str") =>
        LET p == parsers[1]
            trims == "trim" \in DOMAIN p.options => p.options.trim
            t == IF trims THEN Stripped(input) ELSE input
        IN  /\ result.matched <=> \E rest \in Inputs : t = p.s \o rest
            /\ result.matched =>
                  /\ result.output = leaf(p.s)
                  /\ t = p.s \o result.rest
            /\ ~result.matched => result = notMatched(input, Null)

C14_Witness ==
    /\ op = "parse"
    /\ pc = "done"
    /\ parsers[1].kind = "str"
    /\ DOMAIN parsers[1].options = {}
    /\ parsers[1].s = <<>>
    /\ input # <<>>
    /\ \A i \in 1..Len(input) : input[i] \in Whitespace
    /\ result = matched(leaf(<<>>), <<>>)

C14_WitnessFailure ==
    /\ op = "parse"
    /\ pc = "done"
    /\ parsers[1].kind = "str"
    /\ DOMAIN parsers[1].options = {}
    /\ input # <<>>
    /\ Head(input) \in Whitespace
    /\ result = notMatched(input, Null)

\* A primitive parser built without options.
IsDefaultPrimitive(p) ==
    \/ p.kind = "any"
    \/ p.kind \in {"str", "re"} /\ DOMAIN p.options = {}

\* A result is the result of matching the input without its leading
\* whitespace: the same outcome and, on a match, the same output and rest.
MatchesTrimmed(p, s, res) ==
    LET t == Parser(p, Stripped(s))
    IN  /\ res.matched = t.matched
        /\ res.matched => res = t

\* C15 as stated: each of str, re and any, built without options, trims the
\* leading whitespace of the input before it matches.
C15_AllPrimitivesTrim ==
    (op = "parse" /\ pc = "done" /\ IsDefaultPrimitive(parsers[1])) =>
        MatchesTrimmed(parsers[1], input, result)

\* C15, amended: str and re, built without options, trim the leading
\* whitespace of the input before they match; any never trims: it consumes
\* the first character of the input as given, whitespace included.
C15_StrAndReTrim ==
    (op = "parse" /\ pc = "done") =>
        /\ (parsers[1].kind \in {"str", "re"}
               /\ IsDefaultPrimitive(parsers[1])) =>
              MatchesTrimmed(parsers[1], input, result)
        /\ parsers[1].kind = "any" =>
              result = IF input = <<>>
                       THEN notMatched(input, Null)
                       ELSE matched(leaf(<<Head(input)>>), Tail(input))

C15_Witness ==
    /\ op = "parse"
    /\ pc = "done"
    /\ parsers[1].kind = "any"
    /\ Len(input) > 1
    /\ Head(input) \in Whitespace
    /\ result = matched(leaf(<<Head(input)>>), Tail(input))

\* ------------------------------------------------- claims about cstToIst
\* cstToIst has returned.
Reduced == op = "cstToIst" /\ pc = "done"

\* The reductions of the children of the node given to cstToIst.
ReducedChildren ==
    [i \in DOMAIN arg.children |-> cstToIst(arg.children[i])]

C16_WitnessNull ==
    /\ Reduced
    /\ arg = leaf(Null)
    /\ result = leaf(Null)

\* The reduced children that are branches.
BranchChildren ==
    {i \in DOMAIN ReducedChildren : isBranch(ReducedChildren[i])}

\* The last branch child that has an entry for key k.
LastWith(k) ==
    CHOOSE i \in BranchChildren :
        /\ k \in DOMAIN ReducedChildren[i].branch
        /\ \A j \in BranchChildren :
              k \in DOMAIN ReducedChildren[j].branch => j <= i

\* The merge rule applies: a seq node, a branch and no sequence among its
\* reduced children.
MergeApplies ==
    /\ arg.type = "seq"
    /\ BranchChildren # {}
    /\ \A i \in DOMAIN ReducedChildren : ~isSequence(ReducedChildren[i])

\* C17: a seq node whose reduced children hold a branch and no sequence
\* reduces to one branch; its keys are those of all branch children, each
\* with the value of the last child that has it; leaf children add nothing.
C17_SeqMerges ==
    (Reduced /\ MergeApplies) =>
        /\ isBranch(result)
        /\ DOMAIN result.branch =
              UNION {DOMAIN ReducedChildren[i].branch : i \in BranchChildren}
        /\ \A k \in DOMAIN result.branch :
              result.branch[k] = ReducedChildren[LastWith(k)].branch[k]

\* Two branch children with different values for one key have been merged,
\* the first of them itself merged from a seq node with a leaf child.
C17_Witness ==
    /\ Reduced
    /\ MergeApplies
    /\ BranchChildren = {1, 2}
    /\ arg.children[1].type = "seq"
    /\ \E i \in DOMAIN arg.children[1].children :
          arg.children[1].children[i].type = "leaf"
    /\ \E k \in DOMAIN ReducedChildren[1].branch :
          /\ k \in DOMAIN ReducedChildren[2].branch
          /\ ReducedChildren[1].branch[k] # ReducedChildren[2].branch[k]

\* A leaf child and a branch child have been merged.
C17_WitnessLeaf ==
    /\ Reduced
    /\ MergeApplies
    /\ arg.children[1].type = "leaf"
    /\ Cardinality(BranchChildren) = 1

\* The flatten rule applies: a seq or many node that is not merged, with a
\* branch or a sequence among its reduced children.
FlattenApplies ==
    /\ arg.type \in {"seq", "many"}
    /\ ~MergeApplies
    /\ \E i \in DOMAIN ReducedChildren : isNotLeaf(ReducedChildren[i])

\* What a reduced child adds to the sequence: nothing for a leaf, itself for
\* a branch, its elements for a sequence.
Contribution(i) ==
    IF isSequence(ReducedChildren[i]) THEN ReducedChildren[i].sequence
    ELSE IF isBranch(ReducedChildren[i]) THEN <<ReducedChildren[i]>>
    ELSE <<>>

\* The number of elements added by the children before child i.
RECURSIVE Offset(_)
Offset(i) == IF i = 1 THEN 0 ELSE Offset(i - 1) + Len(Contribution(i - 1))

\* C18: a seq or many node that is not merged and has a branch or a
\* sequence among its reduced children reduces to one sequence holding, in
\* child order, each branch child as one element and the elements of each
\* sequence child, leaf children adding nothing; a many node of tagged
\* children reduces to a sequence of single-entry branches.
C18_Flattens ==
    (Reduced /\ FlattenApplies) =>
        /\ isSequence(result)
        /\ Len(result.sequence) =
              Offset(Len(arg.children)) + Len(Contribution(Len(arg.children)))
        /\ \A i \in DOMAIN arg.children :
              \A j \in DOMAIN Contribution(i) :
                  result.sequence[Offset(i) + j] = Contribution(i)[j]
        /\ (arg.type = "many"
            /\ \A i \in DOMAIN arg.children : arg.children[i].type = "tag") =>
              /\ Len(result.sequence) = Len(arg.children)
              /\ \A i \in DOMAIN result.sequence :
                    /\ isBranch(result.sequence[i])
                    /\ DOMAIN result.sequence[i].branch = {arg.children[i].tag}

\* A sequence child of two elements and a branch child have been flattened
\* into one sequence of three branches.
C18_Witness ==
    /\ Reduced
    /\ FlattenApplies
    /\ Len(arg.children) = 2
    /\ isSequence(ReducedChildren[1])
    /\ Len(ReducedChildren[1].sequence) = 2
    /\ isBranch(ReducedChildren[2])
    /\ Len(result.sequence) = 3

\* A many node of two tagged children has been reduced.
C18_WitnessTagged ==
    /\ Reduced
    /\ arg.type = "many"
    /\ Len(arg.children) = 2
    /\ \A i \in DOMAIN arg.children : arg.children[i].type = "tag"
    /\ arg.children[1].tag = arg.children[2].tag
    /\ isSequence(result)

\* A leaf child has been dropped from the sequence.
C18_WitnessLeaf ==
    /\ Reduced
    /\ FlattenApplies
    /\ \E i \in DOMAIN arg.children : arg.children[i].type = "leaf"

\* Every reduced child of a seq or many node is a leaf.
JoinApplies ==
    /\ arg.type \in {"seq", "many"}
    /\ \A i \in DOMAIN ReducedChildren : ~isNotLeaf(ReducedChildren[i])

\* The text of a leaf, nothing for the null leaf.
TextOf(node) == IF node.text = Null THEN <<>> ELSE node.text

RECURSIVE Concatenation(_)
Concatenation(nodes) ==
    IF nodes = <<>> THEN <<>>
    ELSE TextOf(Head(nodes)) \o Concatenation(Tail(nodes))

C19_WitnessEmpty ==
    /\ Reduced
    /\ arg = cstBranch("many", <<>>)
    /\ result = leaf(<<>>)

\* A null leaf child has been joined.
C19_WitnessNull ==
    /\ Reduced
    /\ JoinApplies
    /\ \E i \in DOMAIN arg.children : arg.children[i] = leaf(Null)

\* C20: cstToIst of a many node with no children is the empty sequence, and
\* a seq node of a tagged child and a many node with no children reduces to
\* the sequence of the one branch of the tagged child.
C20_EmptyManyIsSequence ==
    Reduced =>
        /\ arg = cstBranch("many", <<>>) => result = istSequence(<<>>)
        /\ (/\ arg.type = "seq"
            /\ Len(arg.children) = 2
            /\ arg.children[1].type = "tag"
            /\ arg.children[2] = cstBranch("many", <<>>)) =>
              result = istSequence(<<cstToIst(arg.children[1])>>)

\* What cstToIst returns in the two cases of C20: the empty string, and the
\* branch of the tagged child itself.
C20_EmptyManyIsString ==
    Reduced =>
        /\ arg = cstBranch("many", <<>>) => result = leaf(<<>>)
        /\ (/\ arg.type = "seq"
            /\ Len(arg.children) = 2
            /\ arg.children[1].type = "tag"
            /\ arg.children[2] = cstBranch("many", <<>>)) =>
              result = cstToIst(arg.children[1])

\* A seq node of a tagged child and a many node with no children has been
\* reduced.
C20_Witness ==
    /\ Reduced
    /\ arg.type = "seq"
    /\ Len(arg.children) = 2
    /\ arg.children[1].type = "tag"
    /\ arg.children[2] = cstBranch("many", <<>>)

\* ---------------------------------------------------- claims about rules
\* The rule has been applied to input.
Applied == op = "rule" /\ pc = "done"

\* The transformer was called in this application.
TransformerCalled == calls # <<>>

\* Structural matching: a placeholder accepts the value; a sequence pattern
\* needs a sequence of the same length, matching by position; a branch
\* pattern needs an object with the same keys, matching by key; any other
\* pattern needs an equal value.
RECURSIVE Matches(_, _)
Matches(p, value) ==
    IF isBinding(p) THEN truthy(patternBind(p, value))
    ELSE IF isArray(p)
    THEN /\ isArray(value)
         /\ Len(value.sequence) = Len(p.sequence)
         /\ \A i \in DOMAIN p.sequence :
               Matches(p.sequence[i], value.sequence[i])
    ELSE IF isObject(p)
    THEN /\ isObject(value)
         /\ DOMAIN entriesOf(value) = DOMAIN entriesOf(p)
         /\ \A k \in DOMAIN entriesOf(p) :
               Matches(entriesOf(p)[k], entriesOf(value)[k])
    ELSE p = value

C21_WitnessExtraKey ==
    /\ Applied
    /\ ~TransformerCalled
    /\ isObject(rules[1].pattern)
    /\ isObject(input)
    /\ DOMAIN entriesOf(rules[1].pattern) = {<<"t">>}
    /\ DOMAIN entriesOf(input) = TagNames
    /\ Matches(entriesOf(rules[1].pattern)[<<"t">>], entriesOf(input)[<<"t">>])

\* A sequence pattern of two elements has matched.
C21_WitnessSequence ==
    /\ Applied
    /\ TransformerCalled
    /\ isArray(rules[1].pattern)
    /\ Len(rules[1].pattern.sequence) = 2

\* What a placeholder accepts by its kind: bindLeaf a value that is neither
\* a sequence nor a branch made by cstToIst, bindSequence a sequence with no
\* such element, bindAny every value.
AcceptsByKind(p, value) ==
    CASE p.bind = "leaf" -> ~isArray(value) /\ "branch" \notin DOMAIN value
      [] p.bind = "sequence" ->
            /\ isArray(value)
            /\ \A i \in DOMAIN value.sequence :
                  /\ ~isArray(value.sequence[i])
                  /\ "branch" \notin DOMAIN value.sequence[i]
      [] p.bind = "any" -> TRUE

\* C22: a placeholder accepts a value according to its kind alone, whatever
\* its capture name, and on acceptance the value is captured under the name.
C22_AcceptsByKindAlone ==
    (Applied /\ isBinding(rules[1].pattern)) =>
        /\ TransformerCalled <=> AcceptsByKind(rules[1].pattern, input)
        /\ TransformerCalled =>
              /\ rules[1].pattern.name \in DOMAIN calls[1].bindings
              /\ calls[1].bindings[rules[1].pattern.name] = input

\* C22, for the names that are not the empty string: the placeholder accepts
\* by its kind alone and captures the value under its name; a placeholder
\* whose name is the empty string accepts nothing.
C22_AcceptsByKindIfNamed ==
    (Applied /\ isBinding(rules[1].pattern)) =>
        /\ TransformerCalled <=>
              /\ rules[1].pattern.name # <<>>
              /\ AcceptsByKind(rules[1].pattern, input)
        /\ TransformerCalled =>
              /\ rules[1].pattern.name \in DOMAIN calls[1].bindings
              /\ calls[1].bindings[rules[1].pattern.name] = input

\* bindAny with the empty name has been applied to a value.
C22_Witness ==
    /\ Applied
    /\ rules[1].pattern = bindAny(<<>>)
    /\ result = input

\* bindSequence has captured the empty sequence.
C22_WitnessSequence ==
    /\ Applied
    /\ TransformerCalled
    /\ rules[1].pattern = bindSequence(<<"x">>)
    /\ input = istSequence(<<>>)

\* C23: applying a rule is replace-or-identity: when the whole pattern
\* matches, the result is the transformer applied to the captures; when any
\* part fails to match, the transformer is not called and the result is the
\* value itself.
C23_ReplaceOrIdentity ==
    Applied =>
        IF Matches(rules[1].pattern, input)
        THEN /\ TransformerCalled
             /\ result = transformer(rules[1].transformer, calls[1].bindings)
        ELSE /\ ~TransformerCalled
             /\ result = input

\* A sequence pattern has failed on its second element after its first
\* element was captured: the value is returned.
C23_Witness ==
    /\ Applied
    /\ ~TransformerCalled
    /\ isArray(rules[1].pattern)
    /\ isArray(input)
    /\ Len(rules[1].pattern.sequence) = 2
    /\ Len(input.sequence) = 2
    /\ isBinding(rules[1].pattern.sequence[1])
    /\ bindings[1] # EmptyObject
    /\ bindings[1][rules[1].pattern.sequence[1].name] = input.sequence[1]
    /\ rules[1].transformer.kind = "const"
    /\ result = input

\* A rule has matched and its result is the capture its transformer reads.
C23_WitnessMatch ==
    /\ Applied
    /\ TransformerCalled
    /\ rules[1].transformer.kind = "get"
    /\ result # Undefined
    /\ result # input

\* The captures of matching p against value: the name of every placeholder
\* of the pattern with the sub-value at its place.
RECURSIVE Captured(_, _)
Captured(p, value) ==
    IF isBinding(p) THEN {<<p.name, value>>}
    ELSE IF isArray(p)
    THEN UNION {Captured(p.sequence[i], value.sequence[i]) :
                  i \in DOMAIN p.sequence}
    ELSE IF isObject(p)
    THEN UNION {Captured(entriesOf(p)[k], entriesOf(value)[k]) :
                  k \in DOMAIN entriesOf(p)}
    ELSE {}

\* C28: whenever a rule's transformer is called, the capture table it gets
\* holds exactly the names bound while matching the current value, each
\* with a sub-value matched in this application; nothing recorded by an
\* earlier application of the rule is left in it.
C28_CapturesOfThisApplication ==
    (Applied /\ TransformerCalled) =>
        /\ DOMAIN calls[1].bindings =
              {c[1] : c \in Captured(rules[1].pattern, input)}
        /\ \A n \in DOMAIN calls[1].bindings :
              <<n, calls[1].bindings[n]>> \in Captured(rules[1].pattern, input)

\* The transformer has been called with a capture that replaced the one an
\* earlier application had recorded under the same name.
C28_Witness ==
    /\ Applied
    /\ TransformerCalled
    /\ \E n \in DOMAIN calls[1].earlier :
          calls[1].earlier[n] # calls[1].bindings[n]

\* ------------------------------------------------ claims about the rewriter
\* transform has returned.
Rewritten == op = "istTransformer" /\ pc = "done"

\* Path p leads to a node above the node of path q.
IsAbove(p, q) == Len(p) < Len(q) /\ SubSeq(q, 1, Len(p)) = p

\* The last call of a rule on the node of the path.
LastAt(path) ==
    CHOOSE i \in DOMAIN calls :
        /\ calls[i].path = path
        /\ \A j \in DOMAIN calls : calls[j].path = path => j <= i

\* What the rewriter made of the node of the path.
RewrittenAt(path) == calls[LastAt(path)].result

\* C24: the rewriter works bottom-up: every element of a sequence and every
\* value of a branch is rewritten before any rule is tried against the node
\* itself, and the rules are tried against the node made of the rewritten
\* children.
C24_BottomUp ==
    Rewritten =>
        \A i \in DOMAIN calls :
            /\ \A j \in DOMAIN calls :
                  IsAbove(calls[i].path, calls[j].path) => j < i
            /\ isArray(calls[i].node) =>
                  \A n \in DOMAIN calls[i].node.sequence :
                      calls[i].node.sequence[n] =
                          RewrittenAt(Append(calls[i].path, n))
            /\ isObject(calls[i].node) =>
                  \A k \in DOMAIN entriesOf(calls[i].node) :
                      entriesOf(calls[i].node)[k] =
                          RewrittenAt(Append(calls[i].path, positionOf(k)))
            /\ (calls[i].path = <<>> /\ isObject(input)) =>
                  /\ isObject(calls[i].node)
                  /\ DOMAIN entriesOf(calls[i].node) = DOMAIN entriesOf(input)
            /\ (calls[i].path = <<>> /\ isArray(input)) =>
                  /\ isArray(calls[i].node)
                  /\ Len(calls[i].node.sequence) = Len(input.sequence)

\* With the rules "a" -> "c" and {t: "c"} -> "d" the branch {t: "a"} has
\* been rewritten to "d".
C24_Witness ==
    /\ Rewritten
    /\ Len(rules) = 2
    /\ rules[1] = [pattern |-> leaf(<<"a">>),
                   transformer |-> [kind |-> "const", value |-> leaf(<<"c">>)]]
    /\ rules[2] = [pattern |-> plainObject([k \in {<<"t">>} |-> leaf(<<"c">>)]),
                   transformer |-> [kind |-> "const", value |-> leaf(<<"d">>)]]
    /\ input = istBranch([k \in {<<"t">>} |-> leaf(<<"a">>)])
    /\ result = leaf(<<"d">>)

\* C25: the rewriter's result for a node is the output of the first rule, in
\* list order, whose pattern matches the node; no rule after that rule is
\* applied to the node.
C25_FirstMatchWins ==
    Rewritten =>
        \A i \in DOMAIN calls :
            calls[i].matched =>
                /\ \A j \in DOMAIN calls :
                      calls[j].path = calls[i].path => j <= i
                /\ RewrittenAt(calls[i].path) = calls[i].result

\* C25, as the code has it: the result for a node is the output of the first
\* rule whose output is not the node itself; a rule whose pattern matches
\* but whose output is the node counts as not matching, and the next rule is
\* called on the node.
C25_FirstChangeWins ==
    Rewritten =>
        \A i \in DOMAIN calls :
            IF calls[i].result # calls[i].node
            THEN /\ \A j \in DOMAIN calls :
                       calls[j].path = calls[i].path => j <= i
                 /\ RewrittenAt(calls[i].path) = calls[i].result
            ELSE calls[i].rule < Len(rules) =>
                    /\ i + 1 \in DOMAIN calls
                    /\ calls[i + 1].path = calls[i].path
                    /\ calls[i + 1].rule = calls[i].rule + 1
                    /\ calls[i + 1].node = calls[i].node

\* A rule has matched a node and returned it, and the next rule has then
\* rewritten the node.
C25_Witness ==
    /\ Rewritten
    /\ Len(calls) = 2
    /\ calls[1].matched
    /\ calls[1].result = calls[1].node
    /\ calls[2].matched
    /\ calls[2].path = calls[1].path
    /\ result # input

\* The paths of the nodes of a tree.
RECURSIVE PathsOf(_)
PathsOf(node) ==
    {<<>>}
    \cup (IF isArray(node)
          THEN UNION {{<<n>> \o q : q \in PathsOf(node.sequence[n])} :
                        n \in DOMAIN node.sequence}
          ELSE IF isObject(node)
          THEN UNION {{<<positionOf(k)>> \o q :
                          q \in PathsOf(entriesOf(node)[k])} :
                        k \in DOMAIN entriesOf(node)}
          ELSE {})

\* C26: rewriting is a single pass: every node of the input tree is offered
\* to the rule list once, each rule being called on it at most once and in
\* list order, and once a rule has returned something else than the node no
\* rule is called on that node again, so the output of a rule is not matched
\* against the rule list.
C26_SinglePass ==
    Rewritten =>
        /\ {calls[i].path : i \in DOMAIN calls} = PathsOf(input)
        /\ \A i \in DOMAIN calls :
              \/ calls[i].rule = 1
              \/ /\ i > 1
                 /\ calls[i - 1].path = calls[i].path
                 /\ calls[i - 1].rule = calls[i].rule - 1
        /\ \A i, j \in DOMAIN calls :
              (i < j /\ calls[i].path = calls[j].path) =>
                  /\ calls[i].rule < calls[j].rule
                  /\ calls[i].node = calls[j].node
                  /\ calls[i].result = calls[i].node

\* The first rule has rewritten the leaf "a" to "c"; the second rule, whose
\* pattern matches "c", has not been called.
C26_Witness ==
    /\ Rewritten
    /\ Len(rules) = 2
    /\ input = leaf(<<"a">>)
    /\ rules[1].pattern = leaf(<<"a">>)
    /\ rules[2].pattern = bindLeaf(<<"x">>)
    /\ rules[2].transformer = [kind |-> "const", value |-> leaf(<<"d">>)]
    /\ Len(calls) = 1
    /\ result = leaf(<<"c">>)

\* Every node of a tree of three nodes has been offered to the rules.
C26_WitnessTree ==
    /\ Rewritten
    /\ Cardinality(PathsOf(input)) = 3
    /\ Len(calls) > 3

\* A value without the prototypes of its objects, as toEqual compares it.
RECURSIVE Plain(_)
Plain(value) ==
    IF isArray(value)
    THEN istSequence([n \in DOMAIN value.sequence |->
                         Plain(value.sequence[n])])
    ELSE IF isObject(value)
    THEN plainObject([k \in DOMAIN entriesOf(value) |->
                         Plain(entriesOf(value)[k])])
    ELSE value

\* No rule's pattern has matched the node of the path.
NoMatchAt(path) ==
    \A i \in DOMAIN calls : calls[i].path = path => ~calls[i].matched

C27_WitnessChild ==
    /\ Rewritten
    /\ Len(rules) = 1
    /\ isObject(input)
    /\ NoMatchAt(<<>>)
    /\ Plain(result) # Plain(input)

\* ------------------------------------------ the shape of a reduced tree
\* Every sequence of the tree is non-empty and holds branches only, and
\* every branch has an entry.
RECURSIVE WellFormed(_)
WellFormed(node) ==
    IF isSequence(node)
    THEN /\ node.sequence # <<>>
         /\ \A i \in DOMAIN node.sequence :
               /\ isBranch(node.sequence[i])
               /\ WellFormed(node.sequence[i])
    ELSE IF isBranch(node)
    THEN /\ DOMAIN node.branch # {}
         /\ \A k \in DOMAIN node.branch : WellFormed(node.branch[k])
    ELSE TRUE

RECURSIVE NodeAt(_, _)
NodeAt(node, path) ==
    IF path = <<>> THEN node
    ELSE IF isArray(node) THEN NodeAt(node.sequence[Head(path)], Tail(path))
    ELSE NodeAt(entriesOf(node)[KeyOrder[Head(path)]], Tail(path))

\* The node of the path is a branch of the input that no rule has matched.
UnmatchedBranchAt(path) ==
    /\ path \in PathsOf(input)
    /\ "branch" \in DOMAIN NodeAt(input, path)
    /\ NoMatchAt(path)

\* The placeholders of a pattern that matched the node of the path, each
\* with its kind and the path of the value it captured.
RECURSIVE CapturedAt(_, _, _)
CapturedAt(p, value, path) ==
    IF isBinding(p) THEN {[kind |-> p.bind, value |-> value, path |-> path]}
    ELSE IF isArray(p)
    THEN UNION {CapturedAt(p.sequence[n], value.sequence[n], Append(path, n)) :
                  n \in DOMAIN p.sequence}
    ELSE IF isObject(p)
    THEN UNION {CapturedAt(entriesOf(p)[k], entriesOf(value)[k],
                           Append(path, positionOf(k))) :
                  k \in DOMAIN entriesOf(p)}
    ELSE {}

\* C30: during a rewrite pass a branch child that no rule matched is still
\* a branch when the rules are tried against its parent: a bindLeaf
\* placeholder of the parent's pattern does not capture it, and a
\* bindSequence placeholder does not accept a sequence that holds it.
C30_BranchStaysBranch ==
    Rewritten =>
        \A i \in DOMAIN calls :
            calls[i].matched =>
                \A c \in CapturedAt(rules[calls[i].rule].pattern,
                                    calls[i].node, calls[i].path) :
                    /\ c.kind = "leaf" =>
                          (c.path = calls[i].path \/ ~UnmatchedBranchAt(c.path))
                    /\ c.kind = "sequence" =>
                          \A n \in DOMAIN c.value.sequence :
                              ~UnmatchedBranchAt(Append(c.path, n))

\* A bindLeaf placeholder under the key u has captured the branch {t: "a"},
\* rebuilt by the pass as a plain object.
C30_Witness ==
    /\ Rewritten
    /\ Len(rules) = 1
    /\ rules[1].pattern = plainObject([k \in {<<"u">>} |-> bindLeaf(<<"x">>)])
    /\ rules[1].transformer = [kind |-> "get", name |-> <<"x">>]
    /\ input = istBranch([k \in {<<"u">>} |->
                             istBranch([j \in {<<"t">>} |-> leaf(<<"a">>)])])
    /\ result = plainObject([j \in {<<"t">>} |-> leaf(<<"a">>)])

\* A bindSequence placeholder has accepted a sequence of rebuilt branches.
C30_WitnessSequence ==
    /\ Rewritten
    /\ Len(rules) = 1
    /\ rules[1].pattern = bindSequence(<<"x">>)
    /\ isArray(input)
    /\ calls[Len(calls)].matched
    /\ calls[Len(calls)].path = <<>>

====
